---- MODULE Spec2Model ----
(***************************************************************************)
(* Model of spotify-analytics: src/src/db.rs (SpotifyAnalytics, the        *)
(* spotify_history table) and src/src/main.rs (the parse command).         *)
(*                                                                         *)
(* Two specifications share the state and the operations:                  *)
(*   Spec      the operations on the working set (new, the single-file     *)
(*             import, save, the two rankings) called in any order;        *)
(*   MainSpec  the fixed sequence of calls made by main, which is where    *)
(*             the directory import, a loop of single-file imports, runs.  *)
(*                                                                         *)
(* Scaling.  TLC integers are 32 bits wide, so u64::MAX is scaled down to  *)
(* U64_MAX and the range of DateTime<Utc> to MIN_UTC..MAX_UTC; every       *)
(* arithmetic operation keeps the shape it has in the code.                *)
(***************************************************************************)
EXTENDS Integers, Sequences, FiniteSets, Bags, TLC

VARIABLES
    store,      \* rows of table spotify_history, in insertion order
    store0,     \* history variable: the rows at the start of the run
    pc,         \* position of the caller
    history,    \* SpotifyAnalytics.history
    max_ts,     \* SpotifyAnalytics.max_ts
    min_ts,     \* SpotifyAnalytics.min_ts
    loaded,     \* history variable: the rows loaded by SpotifyAnalytics::new
    op,         \* the last operation called
    arg,        \* its argument (Option)
    res,        \* its Result: "Ok" or the kind of error
    ctx,        \* the record attached to a failed INSERT (Option)
    out,        \* the Vec returned by the last ranking call
    invoked,    \* directory entries handed to the single-file import, in order
    h0,         \* history variable: history on entry to the last operation
    s0,         \* history variable: store on entry to the last operation
    nImports,   \* number of import calls made so far
    nSaves,     \* number of save calls made so far
    steps       \* the calls main has made, in order, each with its Result

vars == <<store, store0, pc, history, max_ts, min_ts, loaded, op, arg, res,
          ctx, out, invoked, h0, s0, nImports, nSaves, steps>>

-----------------------------------------------------------------------------
(* Bounds of the model *)

\* stands for u64::MAX (scaled)
U64_MAX == 3000
\* stands for DateTime::<Utc>::MAX_UTC (scaled)
MAX_UTC == 4
\* number of distinct artist names in the largest import file
NumArtists == 11
\* longest directory listing
MaxDirLen == 3
\* import calls per run of the API caller
MaxImports == 2
\* save calls per run of the API caller
MaxSaves == 1
\* the latest INSERT of a save the environment may fail
MaxFailAt == 3
\* buckets of the modelled hash table: more than there are artist names
HashMod == 13

-----------------------------------------------------------------------------
(* Data model *)

\* DateTime::<Utc>::MIN_UTC
MIN_UTC == 0


\* Option<T>
None == <<>>
Some(x) == <<x>>

\* SpotifyHistoryEntry, restricted to the fields the operations read
SpotifyHistoryEntry(t, a, m) ==
    [ts |-> t, master_metadata_album_artist_name |-> a, ms_played |-> m]

T1 == MIN_UTC + 1
T2 == MIN_UTC + 2
T3 == MIN_UTC + 3

Min2(a, b) == IF a <= b THEN a ELSE b

-----------------------------------------------------------------------------
(* The environment: contents of import files, directory listings, stores *)

\* [(A,1000),(B,2000),(A,500)]
JsonA ==
    << SpotifyHistoryEntry(T1, Some(1), 1000),
       SpotifyHistoryEntry(T2, Some(2), 2000),
       SpotifyHistoryEntry(T1, Some(1), 500) >>

\* a podcast episode (no artist name) and a play at the largest timestamp
JsonB ==
    << SpotifyHistoryEntry(T2, None, 700),
       SpotifyHistoryEntry(MAX_UTC, Some(1), U64_MAX) >>

\* a play at the smallest timestamp
JsonC == << SpotifyHistoryEntry(MIN_UTC, Some(2), 2000) >>

\* one play for each of NumArtists artists
JsonBig == [i \in 1..NumArtists |-> SpotifyHistoryEntry(T1, Some(i), 100 * (1 + (i % 3)))]

\* a file: kind, extension (Option), readability, well-formedness, and the
\* entries its text holds up to the end (or up to the syntax error)
File(kind, ext, readable, wellFormed, entries) ==
    [kind |-> kind, ext |-> ext, readable |-> readable,
     wellFormed |-> wellFormed, entries |-> entries]

FileA      == File("file", Some("json"), TRUE, TRUE, JsonA)
FileB      == File("file", Some("json"), TRUE, TRUE, JsonB)
FileBad    == File("file", Some("json"), TRUE, FALSE, JsonC)
FileTxt    == File("file", Some("txt"), TRUE, FALSE, <<>>)
SubDir     == File("dir", None, FALSE, FALSE, <<>>)
FileNoExt  == File("file", None, TRUE, TRUE, JsonC)
Readme     == File("file", None, TRUE, FALSE, <<>>)
FileBig    == File("file", Some("json"), TRUE, TRUE, JsonBig)
FileLocked == File("file", Some("json"), FALSE, TRUE, JsonA)

\* what a directory may hold
Entries == {FileA, FileB, FileBad, FileTxt, SubDir, FileNoExt, Readme}

\* paths the single-file import may be called with
Files == {FileA, FileB, FileBad, FileNoExt, FileBig, FileLocked}

Injective(s) == \A i, j \in DOMAIN s : i # j => s[i] # s[j]

\* directory listings: every enumeration order of distinct entries
Listings ==
    UNION { { s \in [1..n -> Entries] : Injective(s) } : n \in 0..MaxDirLen }

\* a directory: whether read_dir succeeds, and its listing
Dirs == { [exists |-> TRUE, entries |-> s] : s \in Listings }
        \cup { [exists |-> FALSE, entries |-> <<>>] }

\* contents of spotify_history.db at the start of the run
StoreChoices ==
    { <<>>,
      << SpotifyHistoryEntry(T2, Some(1), 1000) >>,
      << SpotifyHistoryEntry(T3, Some(2), 500), SpotifyHistoryEntry(T1, None, 700) >>,
      JsonBig }

-----------------------------------------------------------------------------
(* SpotifyAnalytics::new *)

\* history.iter().max_by_key(|x| x.ts).map(|x| x.ts).unwrap_or(MIN_UTC)
MaxTsOf(h) ==
    IF h = <<>> THEN MIN_UTC
    ELSE CHOOSE t \in {h[i].ts : i \in DOMAIN h} : \A i \in DOMAIN h : h[i].ts <= t

\* history.iter().min_by_key(|x| x.ts).map(|x| x.ts).unwrap_or(MAX_UTC)
MinTsOf(h) ==
    IF h = <<>> THEN MAX_UTC
    ELSE CHOOSE t \in {h[i].ts : i \in DOMAIN h} : \A i \in DOMAIN h : t <= h[i].ts

\* the frame of an operation that is not a ranking call or a directory import
NoOutput == out' = <<>> /\ invoked' = <<>>

\* the history variables written on entry to every operation
Enter(name, a) ==
    /\ op' = name
    /\ arg' = a
    /\ h0' = history
    /\ s0' = store

\* new(): get_db()?, SELECT * FROM spotify_history, max_ts, min_ts
DoNew(dbOk) ==
    /\ Enter("new", None)
    /\ NoOutput
    /\ ctx' = None
    /\ store' = store
    /\ IF dbOk
       THEN /\ res' = "Ok"
            /\ history' = store
            /\ loaded' = store
            /\ max_ts' = MaxTsOf(store)
            /\ min_ts' = MinTsOf(store)
       ELSE /\ res' = "OpenError"
            /\ UNCHANGED <<history, loaded, max_ts, min_ts>>

-----------------------------------------------------------------------------
(* deserialize_extended_streaming_history_json *)

\* a merge that drops the parsed entries the working set already holds
ExtendDedup(h, parsed) ==
    h \o SelectSeq(parsed, LAMBDA x : \A i \in DOMAIN h : h[i] # x)

\* self.history.extend(history)
Extend(h, parsed) == h \o parsed

\* fs::read(path)?, serde_json::from_slice(&data)?, extend
DeserializeJson(h, f) ==
    IF ~f.readable THEN [history |-> h, res |-> "IoError"]
    ELSE IF ~f.wellFormed THEN [history |-> h, res |-> "ParseError"]
    ELSE [history |-> Extend(h, f.entries), res |-> "Ok"]

DoImportFile(f) ==
    /\ Enter("file", Some(f))
    /\ NoOutput
    /\ ctx' = None
    /\ LET r == DeserializeJson(history, f)
       IN  /\ history' = r.history
           /\ res' = r.res
    /\ UNCHANGED <<store, loaded, max_ts, min_ts>>

-----------------------------------------------------------------------------
(* deserialize_extended_streaming_history_json_files_from_folder *)

\* !dir_entry.file_type()?.is_file()
NotAFile(e) == e.kind # "file"

\* if let Some(ext) = path.extension() { if ext != "json" { continue } }
IgnoredByExtension(e) == e.ext # None /\ e.ext[1] # "json"

\* a loop that logs the error of a file and goes on to the next entry
PropagatesNever(r) == FALSE

\* the ? after the single-file import: an error ends the loop
Propagates(r) == r # "Ok"

RECURSIVE FolderLoop(_, _, _, _)
\* for dir_entry in fs::read_dir(dir_path)? { ... }
FolderLoop(h, d, i, inv) ==
    IF i > Len(d) THEN [history |-> h, res |-> "Ok", invoked |-> inv]
    ELSE IF NotAFile(d[i]) THEN FolderLoop(h, d, i + 1, inv)
    ELSE IF IgnoredByExtension(d[i]) THEN FolderLoop(h, d, i + 1, inv)
    ELSE LET r == DeserializeJson(h, d[i])
         IN  IF Propagates(r.res)
             THEN [history |-> r.history, res |-> r.res, invoked |-> Append(inv, i)]
             ELSE FolderLoop(r.history, d, i + 1, Append(inv, i))

DoImportFolder(d) ==
    /\ Enter("folder", Some(d))
    /\ ctx' = None
    /\ out' = <<>>
    /\ LET r == IF d.exists
                THEN FolderLoop(history, d.entries, 1, <<>>)
                ELSE [history |-> history, res |-> "IoError", invoked |-> <<>>]
       IN  /\ history' = r.history
           /\ res' = r.res
           /\ invoked' = r.invoked
    /\ UNCHANGED <<store, loaded, max_ts, min_ts>>

-----------------------------------------------------------------------------
(* save *)

\* the filter "outside the range known at load time"
RangeFilterOr(x, mx, mn) == x.ts > mx \/ x.ts < mn

\* .filter(move |x| x.ts > self.max_ts && x.ts < self.min_ts)
RangeFilter(x, mx, mn) == x.ts > mx /\ x.ts < mn

Filtered(h, mx, mn) == SelectSeq(h, LAMBDA x : RangeFilter(x, mx, mn))

\* the loop inside a transaction that is rolled back by a failed INSERT
ExecuteRollback(rows, f, i, failAt) ==
    IF failAt \in i..Len(f)
    THEN [rows |-> rows, res |-> "StorageError", ctx |-> Some(f[failAt])]
    ELSE [rows |-> rows \o SubSeq(f, i, Len(f)), res |-> "Ok", ctx |-> None]

RECURSIVE Execute(_, _, _, _)
\* the loop of stmt.execute(...)?: the failAt-th INSERT fails (0: none does)
Execute(rows, f, i, failAt) ==
    IF i > Len(f) THEN [rows |-> rows, res |-> "Ok", ctx |-> None]
    ELSE IF i = failAt THEN [rows |-> rows, res |-> "StorageError", ctx |-> Some(f[i])]
    ELSE Execute(Append(rows, f[i]), f, i + 1, failAt)

DoSave(dbOk, failAt) ==
    /\ Enter("save", None)
    /\ NoOutput
    /\ IF dbOk
       THEN LET r == Execute(store, Filtered(history, max_ts, min_ts), 1, failAt)
            IN  /\ store' = r.rows
                /\ res' = r.res
                /\ ctx' = r.ctx
       ELSE /\ store' = store
            /\ res' = "OpenError"
            /\ ctx' = None
    /\ UNCHANGED <<history, loaded, max_ts, min_ts>>

-----------------------------------------------------------------------------
(* get_all_top_artists, get_top_10_artists *)

\* u64::wrapping_add
WrappingAdd(a, b) == (a + b) % (U64_MAX + 1)

\* u64::saturating_add
SaturatingAdd(a, b) == IF a + b > U64_MAX THEN U64_MAX ELSE a + b

\* if let Some(a) = x.master_metadata_album_artist_name.as_ref()
HasArtist(x) == x.master_metadata_album_artist_name # None

RECURSIVE Accumulate(_, _, _)
\* for x in self.history.iter() { ... }: s is the HashMap, a function from
\* the names inserted so far to their totals
Accumulate(s, h, i) ==
    IF i > Len(h) THEN s
    ELSE IF HasArtist(h[i])
    THEN LET a == h[i].master_metadata_album_artist_name[1]
             p == IF a \in DOMAIN s THEN s[a] ELSE 0
             t == SaturatingAdd(p, h[i].ms_played)
         IN  Accumulate([k \in DOMAIN s \cup {a} |-> IF k = a THEN t ELSE s[k]], h, i + 1)
    ELSE Accumulate(s, h, i + 1)

\* the bucket of a key in a HashMap whose RandomState drew this seed
Bucket(a, seed) == (a * seed) % HashMod

\* the seeds RandomState may draw
Seeds == {1, 5, HashMod - 1}

RECURSIVE IntoIter(_, _)
\* s.into_iter().collect(): the pairs in bucket order
IntoIter(s, seed) ==
    IF DOMAIN s = {} THEN <<>>
    ELSE LET a == CHOOSE k \in DOMAIN s :
                      \A j \in DOMAIN s : Bucket(k, seed) <= Bucket(j, seed)
         IN  <<<<a, s[a]>>>> \o IntoIter([k \in DOMAIN s \ {a} |-> s[k]], seed)

\* |a, b| a.1.cmp(&b.1): ascending
SortsBeforeAscending(a, b) == a[2] < b[2]

\* |a, b| b.1.cmp(&a.1) is Less: a sorts before b
SortsBefore(a, b) == b[2] < a[2]

RECURSIVE InsertStable(_, _)
\* x, the element that followed r in the input, put after every element it
\* does not sort before
InsertStable(r, x) ==
    IF r = <<>> THEN <<x>>
    ELSE IF SortsBefore(x, r[Len(r)])
         THEN Append(InsertStable(SubSeq(r, 1, Len(r) - 1), x), r[Len(r)])
         ELSE Append(r, x)

RECURSIVE SortBy(_)
\* r.sort_by(...): a stable sort
SortBy(r) ==
    IF r = <<>> THEN <<>>
    ELSE InsertStable(SortBy(SubSeq(r, 1, Len(r) - 1)), r[Len(r)])

get_all_top_artists(h, seed) == SortBy(IntoIter(Accumulate(<<>>, h, 1), seed))

\* Iterator::take(n)
Take(r, n) == SubSeq(r, 1, Min2(n, Len(r)))

\* the ranking without .take(10)
get_top_10_artists_untruncated(h, seed) == get_all_top_artists(h, seed)

get_top_10_artists(h, seed) == Take(get_all_top_artists(h, seed), 10)

Query(name, value) ==
    /\ Enter(name, None)
    /\ res' = "Ok"
    /\ ctx' = None
    /\ invoked' = <<>>
    /\ out' = value
    /\ UNCHANGED <<store, history, loaded, max_ts, min_ts>>

DoGetAllTopArtists(seed) == Query("all", get_all_top_artists(history, seed))

DoGetTop10Artists(seed) == Query("top10", get_top_10_artists(history, seed))

-----------------------------------------------------------------------------
(* The initial state *)

Init ==
    /\ store \in StoreChoices
    /\ store0 = store
    /\ pc = "start"
    /\ history = <<>>
    /\ max_ts = MIN_UTC
    /\ min_ts = MAX_UTC
    /\ loaded = <<>>
    /\ op = "none"
    /\ arg = None
    /\ res = "Ok"
    /\ ctx = None
    /\ out = <<>>
    /\ invoked = <<>>
    /\ h0 = <<>>
    /\ s0 = store
    /\ nImports = 0
    /\ nSaves = 0
    /\ steps = <<>>

-----------------------------------------------------------------------------
(* Spec: the API of SpotifyAnalytics, called in any order *)

New ==
    /\ pc = "start"
    /\ \E dbOk \in BOOLEAN : DoNew(dbOk)
    /\ pc' = IF res' = "Ok" THEN "ready" ELSE "exit_err"
    /\ UNCHANGED <<store0, nImports, nSaves, steps>>

ImportFile ==
    /\ pc = "ready"
    /\ nImports < MaxImports
    /\ \E f \in Files : DoImportFile(f)
    /\ nImports' = nImports + 1
    /\ UNCHANGED <<store0, pc, nSaves, steps>>

\* the INSERT an environment fails: none (0), or one of the first MaxFailAt
\* of those attempted
FailChoices == 0..Min2(MaxFailAt, Len(Filtered(history, max_ts, min_ts)))

Save ==
    /\ pc = "ready"
    /\ nSaves < MaxSaves
    /\ \E dbOk \in BOOLEAN : \E failAt \in FailChoices : DoSave(dbOk, failAt)
    /\ nSaves' = nSaves + 1
    /\ UNCHANGED <<store0, pc, nImports, steps>>

GetAllTopArtists ==
    /\ pc = "ready"
    /\ \E seed \in Seeds : DoGetAllTopArtists(seed)
    /\ UNCHANGED <<store0, pc, nImports, nSaves, steps>>

GetTop10Artists ==
    /\ pc = "ready"
    /\ \E seed \in Seeds : DoGetTop10Artists(seed)
    /\ UNCHANGED <<store0, pc, nImports, nSaves, steps>>

Next ==
    \/ New
    \/ ImportFile
    \/ Save
    \/ GetAllTopArtists
    \/ GetTop10Artists

Spec == Init /\ [][Next]_vars

-----------------------------------------------------------------------------
(* MainSpec: Commands::Parse in main *)

\* a main that discards the Result of a call and goes on
TryIgnored(r, next) == next

\* the ? operator: an Err leaves main, an Ok goes on to the next statement
Try(r, next) == IF r = "Ok" THEN next ELSE "exit_err"

\* let mut spotify_analytics = db::SpotifyAnalytics::new()?;
MainNew ==
    /\ pc = "start"
    /\ \E dbOk \in BOOLEAN : DoNew(dbOk)
    /\ steps' = Append(steps, <<"new", res'>>)
    /\ pc' = Try(res', "constructed")
    /\ UNCHANGED <<store0, nImports, nSaves>>

\* let top_artists = spotify_analytics.get_top_10_artists(); dbg!(top_artists);
MainTop10 ==
    /\ pc = "constructed"
    /\ \E seed \in Seeds : DoGetTop10Artists(seed)
    /\ steps' = Append(steps, <<"top10", res'>>)
    /\ pc' = "reported"
    /\ UNCHANGED <<store0, nImports, nSaves>>

\* spotify_analytics.deserialize_..._files_from_folder(path)?;
MainIngest ==
    /\ pc = "reported"
    /\ \E d \in Dirs : DoImportFolder(d)
    /\ steps' = Append(steps, <<"folder", res'>>)
    /\ pc' = Try(res', "ingested")
    /\ UNCHANGED <<store0, nImports, nSaves>>

\* spotify_analytics.save()?;
MainSave ==
    /\ pc = "ingested"
    /\ \E dbOk \in BOOLEAN : \E failAt \in FailChoices : DoSave(dbOk, failAt)
    /\ steps' = Append(steps, <<"save", res'>>)
    /\ pc' = Try(res', "exit_ok")
    /\ UNCHANGED <<store0, nImports, nSaves>>

MainNext ==
    \/ MainNew
    \/ MainTop10
    \/ MainIngest
    \/ MainSave

MainSpec == Init /\ [][MainNext]_vars

-----------------------------------------------------------------------------
(* Vocabulary of the properties *)

\* the timestamps of a sequence of entries
TsOf(h) == { h[i].ts : i \in DOMAIN h }

\* the artist names that occur on at least one entry
NamesIn(h) ==
    { h[i].master_metadata_album_artist_name[1] :
        i \in { j \in DOMAIN h : h[j].master_metadata_album_artist_name # <<>> } }

RECURSIVE SumMs(_, _)
\* the exact sum of ms_played over the entries carrying artist name a
SumMs(h, a) ==
    IF h = <<>> THEN 0
    ELSE SumMs(SubSeq(h, 1, Len(h) - 1), a)
         + ( IF h[Len(h)].master_metadata_album_artist_name = <<a>>
             THEN h[Len(h)].ms_played ELSE 0 )

\* the total the ranking owes artist a
TotalOf(h, a) == IF SumMs(h, a) > U64_MAX THEN U64_MAX ELSE SumMs(h, a)

\* the multiset of the elements of a sequence
BagOf(s) ==
    [ e \in { s[i] : i \in DOMAIN s } |-> Cardinality({ i \in DOMAIN s : s[i] = e }) ]

RECURSIVE Flatten(_)
\* the concatenation of a sequence of sequences
Flatten(ss) ==
    IF ss = <<>> THEN <<>>
    ELSE Flatten(SubSeq(ss, 1, Len(ss) - 1)) \o ss[Len(ss)]

\* the entries of the working set that are above max_ts and below min_ts
InRange == SelectSeq(history, LAMBDA x : x.ts > max_ts /\ x.ts < min_ts)

\* a list of (name, total) pairs is ordered by total, descending
Descending(r) == \A i \in 1..(Len(r) - 1) : r[i][2] >= r[i + 1][2]

\* the directory listing the last directory import was given
Listing == arg[1].entries

-----------------------------------------------------------------------------
(* The properties *)

\* C1: when the set loaded at construction is non-empty, no entry of the
\* working set, loaded or merged, is above max_ts and below min_ts, and save
\* inserts no row: the store keeps the rows it had at the start of the run.
C1_NonEmptyLoadWritesNothing ==
    (pc = "ready" /\ loaded # <<>>) =>
        /\ \A i \in DOMAIN history :
               ~(history[i].ts > max_ts /\ history[i].ts < min_ts)
        /\ store = store0

\* C1 witness: a successful save after merges that brought entries on both
\* sides of the loaded range
C1_Witness ==
    /\ op = "save" /\ res = "Ok"
    /\ loaded # <<>>
    /\ \E i \in DOMAIN history : history[i].ts > max_ts
    /\ \E i \in DOMAIN history : history[i].ts < min_ts

\* C2: when the store is empty at construction, a successful save writes
\* every merged entry exactly once, whatever its timestamp: the multiset of
\* rows equals the multiset of merged entries.
C2_EmptyStoreWritesAll ==
    (op = "save" /\ res = "Ok" /\ store0 = <<>> /\ s0 = <<>>) =>
        BagOf(store) = BagOf(history)

\* C3: the full ranking holds exactly one pair per artist name that occurs,
\* with total min(U64_MAX, sum of ms_played); entries without an artist name
\* add to no pair and create none.
C3_TotalsPerArtist ==
    op = "all" =>
        /\ { out[i][1] : i \in DOMAIN out } = NamesIn(history)
        /\ Len(out) = Cardinality(NamesIn(history))
        /\ \A i \in DOMAIN out : out[i][2] = TotalOf(history, out[i][1])

\* C3 witness: a ranking over a working set with a nameless entry of nonzero
\* ms_played and an artist whose exact sum is above U64_MAX
C3_Witness ==
    /\ op = "all"
    /\ \E i \in DOMAIN history :
           /\ history[i].master_metadata_album_artist_name = <<>>
           /\ history[i].ms_played > 0
    /\ \E i \in DOMAIN out :
           /\ SumMs(history, out[i][1]) > U64_MAX
           /\ out[i][2] = U64_MAX

\* C4: the full ranking is ordered by total, descending; the entries
\* [(A,1000),(B,2000),(A,500)] yield [(B,2000),(A,1500)].
C4_SortedDescending ==
    op = "all" =>
        /\ Descending(out)
        /\ history = JsonA => out = << <<2, 2000>>, <<1, 1500>> >>

\* C4 witness: the ranking of [(A,1000),(B,2000),(A,500)]
C4_Witness == op = "all" /\ history = JsonA /\ Len(out) = 2

\* C5 as amended: get_top_10_artists returns the first 10 entries of the
\* sorted ranking, and the whole ranking when there are at most 10 artists.
C5_TopTenIsPrefix ==
    op = "top10" =>
        /\ Len(out) = Min2(10, Cardinality(NamesIn(history)))
        /\ Cardinality({ out[i][1] : i \in DOMAIN out }) = Len(out)
        /\ \A i \in DOMAIN out :
               /\ out[i][1] \in NamesIn(history)
               /\ out[i][2] = TotalOf(history, out[i][1])
        /\ Descending(out)
        /\ \A a \in NamesIn(history) \ { out[i][1] : i \in DOMAIN out } :
               \A i \in DOMAIN out : TotalOf(history, a) <= out[i][2]

\* C5 witness: a truncated ranking, of a working set with more than 10 artists
C5_Witness ==
    /\ op = "top10"
    /\ Cardinality(NamesIn(history)) > 10
    /\ Len(out) = 10

\* C5 as stated: for every n the truncated ranking holds the first n entries:
\* none for n = 0, all of them for n at or above the number of artists.
C5_FirstNForEveryN ==
    op = "top10" =>
        \A n \in 0..(NumArtists + 1) :
            Len(out) = Min2(n, Cardinality(NamesIn(history)))

\* C6: the directory import hands to the single-file import only regular
\* files with extension json, and skips every other entry without an error.
C6_OnlyJsonFilesImported ==
    (op = "folder" /\ arg[1].exists) =>
        /\ \A k \in DOMAIN invoked :
               /\ Listing[invoked[k]].kind = "file"
               /\ Listing[invoked[k]].ext = <<"json">>
        /\ ( \A i \in DOMAIN Listing :
                 (Listing[i].kind = "file" /\ Listing[i].ext = <<"json">>)
                     => Listing[i].wellFormed )
             => res = "Ok"

\* C7: a malformed file reached by the directory import fails the import at
\* that file: the working set is what it was, followed by the entries of the
\* files imported before it, and nothing of that file or of a later one.
C7_MalformedFileAborts ==
    (op = "folder" /\ \E k \in DOMAIN invoked : ~Listing[invoked[k]].wellFormed) =>
        LET n == Len(invoked)
        IN  /\ res = "ParseError"
            /\ ~Listing[invoked[n]].wellFormed
            /\ \A k \in 1..(n - 1) :
                   Listing[invoked[k]].wellFormed /\ invoked[k] < invoked[n]
            /\ history = h0 \o Flatten([k \in 1..(n - 1) |-> Listing[invoked[k]].entries])

\* C7 witness: a failed import with a merged file before the malformed one
\* and a well-formed json file after it
C7_Witness ==
    /\ op = "folder" /\ res = "ParseError"
    /\ Len(invoked) >= 2
    /\ history # h0
    /\ \E j \in DOMAIN Listing :
           /\ j > invoked[Len(invoked)]
           /\ Listing[j].kind = "file" /\ Listing[j].ext = <<"json">>
           /\ Listing[j].wellFormed /\ Listing[j].entries # <<>>

\* C8: a successful single-file import leaves the working set as it was,
\* followed by all the parsed entries in their order; max_ts and min_ts stay
\* the maximum and minimum of the loaded set (MIN_UTC and MAX_UTC when it was
\* empty), whatever was merged.
C8_MergeOnlyAppends ==
    /\ (op = "file" /\ res = "Ok") => history = h0 \o arg[1].entries
    /\ (pc = "ready" /\ loaded = <<>>) => (max_ts = MIN_UTC /\ min_ts = MAX_UTC)
    /\ (pc = "ready" /\ loaded # <<>>) =>
           /\ max_ts \in TsOf(loaded) /\ \A t \in TsOf(loaded) : t <= max_ts
           /\ min_ts \in TsOf(loaded) /\ \A t \in TsOf(loaded) : min_ts <= t

\* C8 witness: a second merge, of entries the working set already holds,
\* one of them outside the loaded range
C8_Witness ==
    /\ op = "file" /\ res = "Ok"
    /\ nImports = 2
    /\ loaded # <<>>
    /\ \E i \in DOMAIN arg[1].entries :
           /\ \E j \in DOMAIN h0 : h0[j] = arg[1].entries[i]
           /\ arg[1].entries[i].ts > max_ts

\* C9: save writes the entries in range one by one in working-set order and
\* stops at the first failed INSERT: the rows written before it stay, the
\* failing entry and those after it are not written, and the call fails.
C9_SaveStopsAtFirstError ==
    /\ (op = "save" /\ res = "Ok") => store = s0 \o InRange
    /\ (op = "save" /\ res = "StorageError") =>
           \E k \in DOMAIN InRange :
               /\ ctx = <<InRange[k]>>
               /\ store = s0 \o SubSeq(InRange, 1, k - 1)
    /\ (op = "save" /\ res = "OpenError") => store = s0

\* C9 witness: a save that failed after writing a row, with at least one
\* more entry in range after the failing one
C9_Witness ==
    /\ op = "save" /\ res = "StorageError"
    /\ Len(store) > Len(s0)
    /\ Len(store) + 1 < Len(s0) + Len(InRange)

\* C10: main calls new, the top-10 report, the directory import and save in
\* this order, each only after the calls before it succeeded; when the
\* import fails save is never called and the store holds the rows it held at
\* the start of the run.
C10_MainOrder ==
    /\ Len(steps) <= 4
    /\ \A i \in DOMAIN steps :
           /\ steps[i][1] = <<"new", "top10", "folder", "save">>[i]
           /\ i < Len(steps) => steps[i][2] = "Ok"
    /\ (\A i \in DOMAIN steps : steps[i][1] # "save") => store = store0
    /\ (op = "folder" /\ res # "Ok") => pc = "exit_err"

\* C10 witness: main has left after an import that failed on a later file,
\* with the entries of an earlier file merged
C10_Witness ==
    /\ pc = "exit_err"
    /\ op = "folder" /\ res = "ParseError"
    /\ history # h0
    /\ store = store0

====
